---------------------------- MODULE Spec2Model ----------------------------
(***************************************************************************)
(* LiveSPICE circuit plugin API: the reference circuit                     *)
(* (src/sample_circuit.c) and the host harness (src/circuit_test.c).       *)
(*                                                                         *)
(* Two specifications share the model of the circuit library:              *)
(*   Spec      an arbitrary client drives one circuit instance through the *)
(*             exported entry points;                                      *)
(*   HostSpec  the host program main(): parse_args, load_circuit,          *)
(*             process_audio, calling the library through the function     *)
(*             pointers it resolved.                                       *)
(***************************************************************************)
EXTENDS Integers, Sequences, FiniteSets, TLC

(***************************************************************************)
(* Floating point.  A finite double or float is a fixed-point integer      *)
(* counting units of 1/SC; every operation rounds its exact result toward  *)
(* zero onto that grid.  NaN is a tag outside the range of the finite      *)
(* values the model reaches; it propagates through arithmetic and makes    *)
(* every ordered comparison false, as in IEEE 754.                         *)
(***************************************************************************)
SC == 100

NaN == -(SC * SC * SC)

IsNaN(x) == x = NaN

Abs(a) == IF a < 0 THEN -a ELSE a

\* C division of integers: the quotient truncated toward zero (b # 0).
TruncDiv(a, b) ==
    IF (a >= 0) = (b > 0) THEN Abs(a) \div Abs(b) ELSE -(Abs(a) \div Abs(b))

\* A literal n/d as a double.
Lit(n, d) == TruncDiv(n * SC, d)

FAdd(a, b) == IF IsNaN(a) \/ IsNaN(b) THEN NaN ELSE a + b

FSub(a, b) == IF IsNaN(a) \/ IsNaN(b) THEN NaN ELSE a - b

FNeg(a) == IF IsNaN(a) THEN NaN ELSE -a

FMul(a, b) == IF IsNaN(a) \/ IsNaN(b) THEN NaN ELSE TruncDiv(a * b, SC)

\* x / 0.0 is reached only as 0.0f / 0 (the oversample loop skipped), a NaN.
FDiv(a, b) ==
    IF IsNaN(a) \/ IsNaN(b) \/ b = 0 THEN NaN ELSE TruncDiv(a * SC, b)

FLt(a, b) == ~IsNaN(a) /\ ~IsNaN(b) /\ a < b

FGt(a, b) == ~IsNaN(a) /\ ~IsNaN(b) /\ a > b

\* An int converted to floating point.
IntToF(n) == n * SC

(***************************************************************************)
(* The heap.  A pointer is "NULL" or the name of the block it points to;   *)
(* the three blocks circuit_init allocates hold the CircuitContext, the    *)
(* SampleCircuitState and the parameter array.  M is the memory the        *)
(* library works on: the blocks' contents, their allocation status and the *)
(* number of times each was passed to free().                              *)
(***************************************************************************)
NULL == "NULL"

Blocks == {"ctx", "state", "parameters"}

\* static const char* parameter_names[]
parameter_names == <<"Gain", "Distortion", "Volume">>

num_params == 3

\* The contents of memory that was never written.
NoContext ==
    [internal_state |-> NULL, sample_rate |-> 0, buffer_size |-> 0,
     timestep |-> 0, oversample |-> 0, parameters |-> NULL,
     num_parameters |-> 0]

NoState ==
    [gain |-> 0, threshold |-> 0, makeup_gain |-> 0, last_output |-> 0,
     sample_rate |-> 0]

NoParameters == <<0, 0, 0>>

NoMemory ==
    [context |-> NoContext, state |-> NoState, parameters |-> NoParameters,
     heap |-> [b \in Blocks |-> "none"], frees |-> [b \in Blocks |-> 0]]

Malloc(M, b) == [M EXCEPT !.heap[b] = "live"]

Free(M, b) == [M EXCEPT !.heap[b] = "freed", !.frees[b] = @ + 1]

(***************************************************************************)
(* tube_saturate: the asymmetric soft-knee nonlinearity.                   *)
(***************************************************************************)
tube_saturate(x, threshold) ==
    IF FGt(x, threshold)
    THEN FAdd(threshold,
              FDiv(FSub(x, threshold),
                   FAdd(Lit(1, 1), FDiv(FSub(x, threshold), threshold))))
    ELSE IF FLt(x, FNeg(threshold))
    THEN FAdd(FNeg(threshold),
              FDiv(FAdd(x, threshold),
                   FSub(Lit(1, 1), FDiv(FAdd(x, threshold), threshold))))
    ELSE x

(***************************************************************************)
(* circuit_init.  okCtx, okState, okParams: whether the first, second and  *)
(* third malloc succeed.  The result of the third malloc is not tested:    *)
(* when it fails the stores of the defaults go through a null pointer and  *)
(* the process is killed (fault), with the first two blocks still live.    *)
(* timestep, 1.0 / (sample_rate * oversample), lies below the grid and is  *)
(* held as its reciprocal; nothing reads it.                               *)
(***************************************************************************)
circuit_init(M, sample_rate, buffer_size, oversample, okCtx, okState, okParams) ==
    IF ~okCtx THEN [M |-> M, ret |-> NULL, fault |-> FALSE]
    ELSE IF ~okState
    THEN [M |-> Free(Malloc(M, "ctx"), "ctx"), ret |-> NULL, fault |-> FALSE]
    ELSE
      LET M1 == Malloc(Malloc(M, "ctx"), "state")
          st == [gain |-> Lit(1, 1), threshold |-> Lit(5, 10),
                 makeup_gain |-> Lit(7, 10), last_output |-> Lit(0, 1),
                 sample_rate |-> IntToF(sample_rate)]
          cx == [internal_state |-> "state",
                 sample_rate |-> sample_rate,
                 buffer_size |-> buffer_size,
                 timestep |-> sample_rate * oversample,
                 oversample |-> oversample,
                 num_parameters |-> num_params,
                 parameters |-> IF okParams THEN "parameters" ELSE NULL]
          M2 == [M1 EXCEPT !.state = st, !.context = cx]
      IN  IF ~okParams THEN [M |-> M2, ret |-> NULL, fault |-> TRUE]
          ELSE [M |-> [Malloc(M2, "parameters") EXCEPT
                         !.parameters = <<Lit(5, 10), Lit(5, 10), Lit(7, 10)>>],
                ret |-> "ctx", fault |-> FALSE]

(***************************************************************************)
(* circuit_process.  input is the interleaved buffer (1-based here), the   *)
(* result carries the memory after the call and the samples written to     *)
(* output, frame by frame.                                                 *)
(***************************************************************************)
\* The 1-pole lowpass: 0.5f * processed + 0.5f * last_output, evaluated in
\* double and rounded once on assignment to the float.
Blend(processed, last_output) ==
    IF IsNaN(processed) \/ IsNaN(last_output) THEN NaN
    ELSE TruncDiv(Lit(5, 10) * processed + Lit(5, 10) * last_output, SC)

RECURSIVE OversampleLoop(_, _, _, _, _)
\* for (os = 0; os < oversample; os++): st is the SampleCircuitState.
OversampleLoop(st, sample, processed, os, oversample) ==
    IF os >= oversample THEN [state |-> st, processed |-> processed]
    ELSE
      LET amplified == FMul(sample, st.gain)
          distorted == tube_saturate(amplified, st.threshold)
          scaled    == FMul(distorted, st.makeup_gain)
          blended   == Blend(scaled, st.last_output)
      IN  OversampleLoop([st EXCEPT !.last_output = blended], sample,
                         blended, os + 1, oversample)

\* One pass of the body of for (i ...): the value written to every channel
\* of frame i, and the state after it.
ProcessFrame(st, sample, oversample) ==
    LET r == OversampleLoop(st, sample, Lit(0, 1), 0, oversample)
    IN  [state |-> r.state,
         processed |-> FDiv(r.processed, IntToF(oversample))]

\* A slip in the index: the frame's last channel is read, not its first.
RECURSIVE SampleLoopLastChannel(_, _, _, _, _, _, _)
SampleLoopLastChannel(st, input, output, i, num_samples, num_channels, oversample) ==
    IF i >= num_samples THEN [state |-> st, output |-> output]
    ELSE
      LET sample == input[i * num_channels + num_channels]
          r == ProcessFrame(st, sample, oversample)
      IN  SampleLoopLastChannel(r.state, input,
                     output \o [ch \in 1..num_channels |-> r.processed],
                     i + 1, num_samples, num_channels, oversample)

RECURSIVE SampleLoop(_, _, _, _, _, _, _)
\* for (i = 0; i < num_samples; i++)
SampleLoop(st, input, output, i, num_samples, num_channels, oversample) ==
    IF i >= num_samples THEN [state |-> st, output |-> output]
    ELSE
      LET sample == input[i * num_channels + 1]
          r == ProcessFrame(st, sample, oversample)
      IN  SampleLoop(r.state, input,
                     output \o [ch \in 1..num_channels |-> r.processed],
                     i + 1, num_samples, num_channels, oversample)

\* "Map parameters to circuit values": the SampleCircuitState with gain,
\* threshold and makeup_gain recomputed from the parameter array.
Remap(M) ==
    LET gain       == FAdd(Lit(5, 10), FMul(M.parameters[1], Lit(95, 10)))
        distortion == FAdd(Lit(1, 10), FMul(M.parameters[2], Lit(9, 10)))
        volume     == M.parameters[3]
    IN  [M.state EXCEPT !.gain = gain, !.threshold = distortion,
                        !.makeup_gain = volume]

\* A circuit that starts every buffer from a cleared filter memory.
circuit_process_stateless(M, ctx, input, num_samples, num_channels) ==
    IF ctx = NULL \/ M.context.internal_state = NULL
    THEN [M |-> M, output |-> <<>>]
    ELSE
      LET r == SampleLoop([Remap(M) EXCEPT !.last_output = Lit(0, 1)], input,
                          <<>>, 0, num_samples, num_channels,
                          M.context.oversample)
      IN  [M |-> [M EXCEPT !.state = r.state], output |-> r.output]

circuit_process(M, ctx, input, num_samples, num_channels) ==
    IF ctx = NULL \/ M.context.internal_state = NULL
    THEN [M |-> M, output |-> <<>>]
    ELSE
      LET r == SampleLoop(Remap(M), input, <<>>, 0, num_samples,
                          num_channels, M.context.oversample)
      IN  [M |-> [M EXCEPT !.state = r.state], output |-> r.output]

(***************************************************************************)
(* circuit_set_parameter / circuit_get_parameter and the reflection calls. *)
(***************************************************************************)
Clamp(value) ==
    LET v1 == IF FLt(value, Lit(0, 1)) THEN Lit(0, 1) ELSE value
    IN  IF FGt(v1, Lit(1, 1)) THEN Lit(1, 1) ELSE v1

\* A name that matches nothing falls through to the last parameter.
circuit_set_parameter_fallthrough(M, ctx, name, value) ==
    IF ctx = NULL THEN M
    ELSE IF name = "Gain" THEN [M EXCEPT !.parameters[1] = Clamp(value)]
    ELSE IF name = "Distortion" THEN [M EXCEPT !.parameters[2] = Clamp(value)]
    ELSE [M EXCEPT !.parameters[3] = Clamp(value)]

circuit_set_parameter(M, ctx, name, value) ==
    IF ctx = NULL THEN M
    ELSE IF name = "Gain" THEN [M EXCEPT !.parameters[1] = Clamp(value)]
    ELSE IF name = "Distortion" THEN [M EXCEPT !.parameters[2] = Clamp(value)]
    ELSE IF name = "Volume" THEN [M EXCEPT !.parameters[3] = Clamp(value)]
    ELSE M

circuit_get_parameter(M, ctx, name) ==
    IF ctx = NULL THEN Lit(0, 1)
    ELSE IF name = "Gain" THEN M.parameters[1]
    ELSE IF name = "Distortion" THEN M.parameters[2]
    ELSE IF name = "Volume" THEN M.parameters[3]
    ELSE Lit(0, 1)

\* A cleanup that forgets the parameter array.
circuit_cleanup_leaky(M, ctx) ==
    IF ctx = NULL THEN M
    ELSE
      LET M1 == IF M.context.internal_state # NULL THEN Free(M, "state") ELSE M
      IN  Free(M1, "ctx")

circuit_cleanup(M, ctx) ==
    IF ctx = NULL THEN M
    ELSE
      LET M1 == IF M.context.internal_state # NULL THEN Free(M, "state") ELSE M
          M2 == IF M.context.parameters # NULL THEN Free(M1, "parameters") ELSE M1
      IN  Free(M2, "ctx")

\* static CircuitInfo info
circuit_get_info ==
    [name |-> "Simple Tube Distortion",
     description |-> "Basic tube emulation for testing",
     num_inputs |-> 1, num_outputs |-> 1,
     recommended_oversample |-> 8, recommended_iterations |-> 8]

(***************************************************************************)
(* State.                                                                  *)
(*   ctx         the caller's CircuitContext* (NULL or the block "ctx")    *)
(*   context     the fields of the CircuitContext                          *)
(*   state       the fields of the SampleCircuitState                      *)
(*   parameters  the parameter array                                       *)
(*   heap, frees allocation status and free() count of each block          *)
(*   fault       the process was killed by a memory fault                  *)
(* History of the calls made, kept for stating properties:                 *)
(*   ret   the value the last call returned                                *)
(*   last  the last call: its entry point, arguments, the output it wrote  *)
(*         and the parameters and last_output it started from              *)
(*   hist  the consecutive circuit_process calls made with the same        *)
(*         parameters and channel count: last_output before the first of   *)
(*         them, the chunk sizes, and the inputs and outputs concatenated  *)
(*   calls the number of state-changing calls made on the instance         *)
(* The host program (circuit_test.c):                                      *)
(*   pc            where main / process_audio stands                       *)
(*   cmd           the command line it was started with                    *)
(*   config        the TestConfig parse_args filled in                     *)
(*   syms          the entry points whose function pointer is not NULL     *)
(*   exports       the entry points the loaded circuit module exports      *)
(*   infile, outfile, sfinfo_in, input_buffer, output_buffer, frames_read, *)
(*   total_frames, buffer_count, result    the locals of process_audio     *)
(*   remaining     frames of the input stream not read yet                 *)
(*   written       samples the output stream accepted                      *)
(*   exit_status   the status the process exited with (pc = "exited")      *)
(*   log           the circuit entry points called, in order               *)
(*   failures      the environment failures met so far                     *)
(***************************************************************************)
VARIABLES ctx, context, state, parameters, heap, frees, fault, ret, last, hist,
          calls, pc, cmd, config, syms, exports, infile, outfile, sfinfo_in,
          input_buffer, output_buffer, frames_read, total_frames,
          buffer_count, remaining, written, result, exit_status, log,
          failures

hostVars ==
    <<pc, cmd, config, syms, exports, infile, outfile, sfinfo_in,
      input_buffer, output_buffer, frames_read, total_frames, buffer_count,
      remaining, written, result, exit_status, log, failures>>

libVars == <<ctx, context, state, parameters, heap, frees, fault>>

histVars == <<ret, last, hist, calls>>

Mem ==
    [context |-> context, state |-> state, parameters |-> parameters,
     heap |-> heap, frees |-> frees]

SetMem(M) ==
    /\ context' = M.context
    /\ state' = M.state
    /\ parameters' = M.parameters
    /\ heap' = M.heap
    /\ frees' = M.frees

NoCall ==
    [op |-> "none", name |-> "", value |-> 0, input |-> <<>>,
     output |-> <<>>, num_channels |-> 0, pre |-> 0,
     params |-> NoParameters]

NoHist ==
    [sizes |-> <<>>, num_channels |-> 0, base |-> 0, input |-> <<>>,
     output |-> <<>>]

Call(op) == [NoCall EXCEPT !.op = op, !.params = parameters,
                           !.pre = state.last_output]

(***************************************************************************)
(* The host: constants, the command line and its conversions.              *)
(***************************************************************************)
DEFAULT_SAMPLE_RATE == 48000

DEFAULT_BUFFER_SIZE == 256

DEFAULT_OVERSAMPLE == 8

Mandatory == {"circuit_init", "circuit_process", "circuit_cleanup"}

Optional ==
    {"circuit_set_parameter", "circuit_get_parameter",
     "circuit_get_num_parameters", "circuit_get_parameter_name",
     "circuit_get_info"}

Symbols == Mandatory \cup Optional

\* An option argument is a sequence of characters; the name in front of the
\* '=' of a -p argument is kept as one token.
IsDigit(c) == c \in {"0", "1", "2", "3", "4", "5", "6", "7", "8", "9"}

DigitVal(c) ==
    CASE c = "0" -> 0 [] c = "1" -> 1 [] c = "2" -> 2 [] c = "3" -> 3
      [] c = "4" -> 4 [] c = "5" -> 5 [] c = "6" -> 6 [] c = "7" -> 7
      [] c = "8" -> 8 [] c = "9" -> 9

RECURSIVE Digits(_, _, _, _)
\* The digits of s from position i on: their value after acc, how many there
\* are after n, and the position of the first character that is no digit.
Digits(s, i, acc, n) ==
    IF i <= Len(s) /\ IsDigit(s[i])
    THEN Digits(s, i + 1, acc * 10 + DigitVal(s[i]), n + 1)
    ELSE [value |-> acc, count |-> n, next |-> i]

RECURSIVE Pow10(_)
Pow10(n) == IF n <= 0 THEN 1 ELSE 10 * Pow10(n - 1)

\* atoi: an optional sign and the leading digits; 0 when there are none.
Atoi(s) ==
    LET neg   == Len(s) >= 1 /\ s[1] = "-"
        start == IF Len(s) >= 1 /\ s[1] \in {"-", "+"} THEN 2 ELSE 1
        d     == Digits(s, start, 0, 0)
    IN  IF neg THEN -d.value ELSE d.value

\* atof: "nan", or an optional sign, digits and an optional fraction; 0.0
\* when no number leads the string.
Atof(s) ==
    LET neg   == Len(s) >= 1 /\ s[1] = "-"
        start == IF Len(s) >= 1 /\ s[1] \in {"-", "+"} THEN 2 ELSE 1
        ip    == Digits(s, start, 0, 0)
        dot   == ip.next <= Len(s) /\ s[ip.next] = "."
        fp    == IF dot THEN Digits(s, ip.next + 1, 0, 0)
                 ELSE [value |-> 0, count |-> 0, next |-> ip.next]
        mag   == TruncDiv((ip.value * Pow10(fp.count) + fp.value) * SC,
                          Pow10(fp.count))
    IN  IF Len(s) >= start + 2 /\ SubSeq(s, start, start + 2) = <<"n", "a", "n">>
        THEN NaN
        ELSE IF neg THEN -mag ELSE mag

\* strchr(param, '='): the position of the first '=', 0 when there is none.
StrChrEq(param) ==
    IF \E k \in DOMAIN param : param[k] = "="
    THEN CHOOSE k \in DOMAIN param :
            param[k] = "=" /\ \A j \in 1..(k - 1) : param[j] # "="
    ELSE 0

\* The string in front of the '=': one name token, or the empty string.
NameOf(param, eq) == IF eq = 2 THEN param[1] ELSE ""

Files == {"input_file", "circuit_file", "output_file"}

(***************************************************************************)
(* parse_args.  cmdline: which of -i, -c, -o are given, the arguments of   *)
(* -v and -b (<<>> when absent), the -p arguments in order, and stop: the  *)
(* first -h or unrecognised option getopt_long meets, if any.  TestConfig  *)
(* is an uninitialised local of main and parse_args sets no default for    *)
(* the three file names: a name whose flag is absent holds what the stack  *)
(* held, junk[f], a null or a wild pointer.  -r, -m and -V set fields that *)
(* only the printed report reads.                                          *)
(***************************************************************************)
parse_args(cmdline, junk) ==
    LET cfg ==
          [input_file   |-> IF cmdline.input THEN "arg" ELSE junk["input_file"],
           circuit_file |-> IF cmdline.circuit THEN "arg" ELSE junk["circuit_file"],
           output_file  |-> IF cmdline.output THEN "arg" ELSE junk["output_file"],
           sample_rate  |-> DEFAULT_SAMPLE_RATE,
           buffer_size  |-> IF cmdline.buffer_size = <<>> THEN DEFAULT_BUFFER_SIZE
                            ELSE Atoi(cmdline.buffer_size),
           oversample   |-> IF cmdline.oversample = <<>> THEN DEFAULT_OVERSAMPLE
                            ELSE Atoi(cmdline.oversample),
           param_values |-> cmdline.params,
           num_params   |-> Len(cmdline.params)]
    IN  IF cmdline.stop = "h" THEN [exit |-> TRUE, ret |-> 0, config |-> cfg]
        ELSE IF cmdline.stop = "?"
        THEN [exit |-> FALSE, ret |-> -1, config |-> cfg]
        ELSE IF \/ cfg.input_file = NULL
                \/ cfg.circuit_file = NULL
                \/ cfg.output_file = NULL
        THEN [exit |-> FALSE, ret |-> -1, config |-> cfg]
        ELSE [exit |-> FALSE, ret |-> 0, config |-> cfg]

(***************************************************************************)
(* load_circuit.  opened: dlopen returned a handle; ex: the entry points   *)
(* the module exports, the ones dlsym resolves.                            *)
(***************************************************************************)
\* A loader that does not check the required functions.
load_circuit_unchecked(opened, ex) ==
    IF ~opened THEN [ret |-> -1, syms |-> {}] ELSE [ret |-> 0, syms |-> ex]

load_circuit(opened, ex) ==
    IF ~opened THEN [ret |-> -1, syms |-> {}]
    ELSE IF Mandatory \subseteq ex THEN [ret |-> 0, syms |-> ex]
    ELSE [ret |-> -1, syms |-> ex]

\* The status a return from main, or exit(), hands to the system.
ExitCode(n) == n % 256

NoConfig ==
    [input_file |-> NULL, circuit_file |-> NULL, output_file |-> NULL,
     sample_rate |-> 0, buffer_size |-> 0, oversample |-> 0,
     param_values |-> <<>>, num_params |-> 0]

NoCmd ==
    [input |-> FALSE, circuit |-> FALSE, output |-> FALSE,
     oversample |-> <<>>, buffer_size |-> <<>>, params |-> <<>>,
     stop |-> "none"]

NoBuffer == [ptr |-> NULL, data |-> <<>>]

HostInit ==
    /\ pc = "main"
    /\ cmd = NoCmd
    /\ config = NoConfig
    /\ syms = {}
    /\ exports = {}
    /\ infile = NULL
    /\ outfile = NULL
    /\ sfinfo_in = [samplerate |-> 0, channels |-> 0, frames |-> 0]
    /\ input_buffer = NoBuffer
    /\ output_buffer = NoBuffer
    /\ frames_read = 0
    /\ total_frames = 0
    /\ buffer_count = 0
    /\ remaining = 0
    /\ written = 0
    /\ result = 0
    /\ exit_status = 0
    /\ log = <<>>
    /\ failures = {}

LibInit ==
    /\ ctx = NULL
    /\ context = NoContext
    /\ state = NoState
    /\ parameters = NoParameters
    /\ heap = [b \in Blocks |-> "none"]
    /\ frees = [b \in Blocks |-> 0]
    /\ fault = FALSE
    /\ ret = 0
    /\ last = NoCall
    /\ hist = NoHist
    /\ calls = 0

(***************************************************************************)
(* Bounds and the inputs a caller chooses from.                            *)
(***************************************************************************)
\* state-changing calls (set_parameter, process, cleanup) on one instance
MaxCalls == 2

SampleRates == {48000}

BufferSizes == {256}

Oversamples == {0, 1, 2}

\* <<num_samples, num_channels>> of the buffers passed to circuit_process
Shapes == {<<0, 1>>, <<1, 1>>, <<2, 1>>, <<1, 2>>}

Names == {"Gain", "Distortion", "Volume", "Tone"}

KnownNames == {parameter_names[i] : i \in 1..num_params}

\* -0.5, 0.3, 1.5 and a NaN
ParamValues == {Lit(-1, 2), Lit(3, 10), Lit(3, 2), NaN}

\* sample values: -1.0, 0.0, 0.6
Samples == {Lit(-1, 1), Lit(0, 1), Lit(6, 10)}

\* sample values of the channels after the first
OtherSamples == {Lit(-1, 1), Lit(6, 10)}

Buffers(num_samples, num_channels) ==
    {b \in [1..(num_samples * num_channels) -> Samples] :
        \A k \in DOMAIN b : (k - 1) % num_channels # 0 => b[k] \in OtherSamples}

\* The caller may pass its handle while it is NULL or points to a live
\* instance; after circuit_cleanup the handle is invalid.  A call that only
\* reads leaves the memory as it found it, so whatever follows it is reached
\* without it as well: the client makes such a call last.
Callable ==
    /\ ~fault
    /\ last.op \in {"init", "process", "set_parameter"}
    /\ ctx = NULL \/ heap["ctx"] = "live"

(***************************************************************************)
(* The calls of an arbitrary client of the library.                        *)
(***************************************************************************)
ApiInit(sample_rate, buffer_size, oversample, okCtx, okState, okParams) ==
    /\ last.op = "none"
    /\ LET r == circuit_init(Mem, sample_rate, buffer_size, oversample,
                             okCtx, okState, okParams)
       IN  /\ SetMem(r.M)
           /\ ctx' = r.ret
           /\ fault' = r.fault
           /\ ret' = r.ret
    /\ last' = [Call("init") EXCEPT !.value = oversample]
    /\ UNCHANGED <<hist, calls, hostVars>>

ApiProcess(input, num_samples, num_channels) ==
    /\ Callable
    /\ calls < MaxCalls
    /\ LET r == circuit_process(Mem, ctx, input, num_samples, num_channels)
           cont == hist.sizes # <<>> /\ hist.num_channels = num_channels
       IN  /\ SetMem(r.M)
           /\ last' = [Call("process") EXCEPT !.input = input,
                          !.output = r.output, !.num_channels = num_channels]
           /\ hist' =
                IF ctx = NULL THEN hist
                ELSE IF cont
                THEN [hist EXCEPT !.sizes = Append(@, num_samples),
                                  !.input = @ \o input,
                                  !.output = @ \o r.output]
                ELSE [sizes |-> <<num_samples>>,
                      num_channels |-> num_channels,
                      base |-> state.last_output,
                      input |-> input, output |-> r.output]
    /\ ret' = 0
    /\ calls' = calls + 1
    /\ UNCHANGED <<ctx, fault, hostVars>>

ApiSetParameter(name, value) ==
    /\ Callable
    /\ calls < MaxCalls
    /\ LET M == circuit_set_parameter(Mem, ctx, name, value)
       IN  /\ SetMem(M)
           /\ hist' = IF M.parameters # parameters THEN NoHist ELSE hist
    /\ last' = [Call("set_parameter") EXCEPT !.name = name, !.value = value]
    /\ ret' = 0
    /\ calls' = calls + 1
    /\ UNCHANGED <<ctx, fault, hostVars>>

ApiGetParameter(name) ==
    /\ Callable
    /\ ret' = circuit_get_parameter(Mem, ctx, name)
    /\ last' = [Call("get_parameter") EXCEPT !.name = name]
    /\ UNCHANGED <<libVars, hist, calls, hostVars>>

ApiGetInfo ==
    /\ Callable
    /\ ret' = circuit_get_info
    /\ last' = Call("get_info")
    /\ UNCHANGED <<libVars, hist, calls, hostVars>>

ApiCleanup ==
    /\ Callable
    /\ calls < MaxCalls
    /\ SetMem(circuit_cleanup(Mem, ctx))
    /\ last' = Call("cleanup")
    /\ ret' = 0
    /\ calls' = calls + 1
    /\ UNCHANGED <<ctx, fault, hist, hostVars>>

vars == <<libVars, histVars, hostVars>>

Init == LibInit /\ HostInit

Next ==
    \/ \E sr \in SampleRates, bs \in BufferSizes, os \in Oversamples,
          a, b, c \in BOOLEAN : ApiInit(sr, bs, os, a, b, c)
    \/ \E shape \in Shapes : \E input \in Buffers(shape[1], shape[2]) :
          ApiProcess(input, shape[1], shape[2])
    \/ \E name \in Names, value \in ParamValues : ApiSetParameter(name, value)
    \/ \E name \in Names : ApiGetParameter(name)
    \/ ApiGetInfo
    \/ ApiCleanup

Spec == Init /\ [][Next]_vars

(***************************************************************************)
(* The host program.  What the environment decides is drawn at the step    *)
(* that meets it: the command line, what uninitialised memory held, the    *)
(* module dlopen finds, the streams sf_open finds, each malloc, each read  *)
(* and write.  A use of a wild pointer either kills the process or goes    *)
(* through (survives).                                                     *)
(***************************************************************************)
\* frames of the input stream
MaxFrames == 2

OversampleArgs == {<<>>, <<"0">>, <<"2">>, <<"-", "1">>}

BufferArgs == {<<>>, <<"1">>, <<"0">>}

ParamArgs ==
    {<<"Gain", "=", "1", ".", "5">>, <<"Distortion", "=", "n", "a", "n">>,
     <<"Volume">>, <<"Tone", "=", "0", ".", "3">>}

ParamLists ==
    {<<>>} \cup {<<a>> : a \in ParamArgs}
           \cup {<< <<"Volume", "=", "-", "0", ".", "5">>,
                    <<"Gain", "=", "0", ".", "7">> >>}

CommandLines ==
    [input : BOOLEAN, circuit : BOOLEAN, output : BOOLEAN,
     oversample : OversampleArgs, buffer_size : BufferArgs,
     params : ParamLists, stop : {"none", "h", "?"}]

\* One entry point missing, none, the optional ones that the host uses, or
\* all the optional ones.
ExportSets ==
    {Symbols \ X : X \in {Y \in SUBSET Symbols : Cardinality(Y) <= 1}}
      \cup {Symbols \ {"circuit_set_parameter", "circuit_get_info"}, Mandatory}

StreamInfos ==
    [samplerate : {DEFAULT_SAMPLE_RATE}, channels : {1, 2},
     frames : 0..MaxFrames]

StreamSamples == {Lit(-1, 1), Lit(6, 10)}

StreamBuffers(num_samples, num_channels) ==
    {b \in Buffers(num_samples, num_channels) :
        \A k \in DOMAIN b : b[k] \in StreamSamples}

Min(a, b) == IF a < b THEN a ELSE b

Kill == pc' = "killed" /\ fault' = TRUE

\* int buffer_samples = config->buffer_size * sfinfo_in.channels
buffer_samples == config.buffer_size * sfinfo_in.channels

hostLocals ==
    <<infile, outfile, sfinfo_in, input_buffer, output_buffer, frames_read,
      total_frames, buffer_count, remaining, written, result>>

\* main: parse_args fails -> usage, return 1; -h -> exit(0).
MainParseArgs ==
    /\ pc = "main"
    /\ \E cmdline \in CommandLines, junk \in [Files -> {NULL, "junk"}] :
          LET r == parse_args(cmdline, junk)
          IN  /\ cmd' = cmdline
              /\ config' = r.config
              /\ IF r.exit
                 THEN pc' = "exited" /\ exit_status' = ExitCode(r.ret)
                 ELSE IF r.ret # 0
                 THEN pc' = "exited" /\ exit_status' = ExitCode(1)
                 ELSE pc' = "configured" /\ UNCHANGED exit_status
    /\ UNCHANGED <<libVars, histVars, syms, exports, hostLocals, log, failures>>

\* main: printf("%s") of the three file names.
MainPrintConfiguration(survives) ==
    /\ pc = "configured"
    /\ LET wild == \E f \in Files : config[f] = "junk"
       IN  /\ survives \/ wild
           /\ IF survives THEN pc' = "load" /\ UNCHANGED fault ELSE Kill
    /\ UNCHANGED <<ctx, context, state, parameters, heap, frees, histVars,
                   cmd, config, syms, exports, hostLocals, exit_status, log,
                   failures>>

\* main: load_circuit(config.circuit_file); failure -> return 1.
MainLoadCircuit ==
    /\ pc = "load"
    /\ \E opened, survives \in BOOLEAN, ex \in ExportSets :
          /\ survives \/ config.circuit_file = "junk"
          /\ opened => config.circuit_file = "arg" /\ survives
          /\ ~opened => ex = Symbols
          /\ IF ~survives
             THEN Kill /\ UNCHANGED <<syms, exports, exit_status, failures,
                                      result>>
             ELSE LET r == load_circuit(opened, ex)
                  IN  /\ syms' = r.syms
                      /\ exports' = IF opened THEN ex ELSE {}
                      /\ UNCHANGED fault
                      /\ IF r.ret # 0
                         THEN /\ pc' = "exited"
                              /\ exit_status' = ExitCode(1)
                              /\ failures' = failures \cup
                                    {IF opened THEN "missing" ELSE "dlopen"}
                              /\ UNCHANGED result
                         ELSE /\ pc' = "open_in"
                              /\ result' = -1
                              /\ UNCHANGED <<exit_status, failures>>
    /\ UNCHANGED <<ctx, context, state, parameters, heap, frees, histVars,
                   cmd, config, infile, outfile, sfinfo_in, input_buffer,
                   output_buffer, frames_read, total_frames, buffer_count,
                   remaining, written, log>>

\* process_audio: open the input file.
OpenInput ==
    /\ pc = "open_in"
    /\ \E ok, survives \in BOOLEAN, info \in StreamInfos :
          /\ survives \/ config.input_file = "junk"
          /\ ok => config.input_file = "arg" /\ survives
          /\ ~ok => info.frames = 0 /\ info.channels = 1
          /\ IF ~survives
             THEN Kill /\ UNCHANGED <<infile, sfinfo_in, remaining, failures>>
             ELSE IF ok
             THEN /\ infile' = "open"
                  /\ sfinfo_in' = info
                  /\ remaining' = info.frames
                  /\ pc' = "open_out"
                  /\ UNCHANGED <<fault, failures>>
             ELSE /\ failures' = failures \cup {"open_in"}
                  /\ pc' = "cleanup"
                  /\ UNCHANGED <<fault, infile, sfinfo_in, remaining>>
    /\ UNCHANGED <<ctx, context, state, parameters, heap, frees, histVars,
                   cmd, config, syms, exports, outfile, input_buffer,
                   output_buffer, frames_read, total_frames, buffer_count,
                   written, result, exit_status, log>>

\* process_audio: open the output file; a wild name may even be created.
OpenOutput(ok, survives) ==
    /\ pc = "open_out"
    /\ survives \/ config.output_file = "junk"
    /\ ok => survives
    /\ IF ~survives THEN Kill /\ UNCHANGED <<outfile, failures>>
       ELSE IF ok
       THEN /\ outfile' = "open"
            /\ pc' = "init"
            /\ UNCHANGED <<fault, failures>>
       ELSE /\ failures' = failures \cup {"open_out"}
            /\ pc' = "cleanup"
            /\ UNCHANGED <<fault, outfile>>
    /\ UNCHANGED <<ctx, context, state, parameters, heap, frees, histVars,
                   cmd, config, syms, exports, infile, sfinfo_in,
                   input_buffer, output_buffer, frames_read, total_frames,
                   buffer_count, remaining, written, result, exit_status, log>>

\* A call through a function pointer: through a null one the process dies.
Resolved(sym) == sym \in syms

\* process_audio: ctx = circuit_init(...); NULL -> cleanup.
InitCircuit(okCtx, okState, okParams) ==
    /\ pc = "init"
    /\ log' = Append(log, "circuit_init")
    /\ IF ~Resolved("circuit_init")
       THEN Kill /\ UNCHANGED <<ctx, context, state, parameters, heap, frees,
                                failures>>
       ELSE LET r == circuit_init(Mem, sfinfo_in.samplerate,
                                  config.buffer_size, config.oversample,
                                  okCtx, okState, okParams)
            IN  /\ SetMem(r.M)
                /\ ctx' = r.ret
                /\ IF r.fault THEN Kill /\ UNCHANGED failures
                   ELSE IF r.ret = NULL
                   THEN /\ failures' = failures \cup {"init"}
                        /\ pc' = "cleanup"
                        /\ UNCHANGED fault
                   ELSE pc' = "setup" /\ UNCHANGED <<fault, failures>>
    /\ UNCHANGED <<histVars, cmd, config, syms, exports, hostLocals,
                   exit_status>>

RECURSIVE SetParameters(_, _, _)
\* for (i = 0; i < config->num_params; i++): the memory and the log after
\* the assignments from the i-th on (1-based here).
SetParameters(M, lg, i) ==
    IF i > config.num_params THEN [M |-> M, log |-> lg]
    ELSE
      LET param == config.param_values[i]
          eq    == StrChrEq(param)
          value == Atof(SubSeq(param, eq + 1, Len(param)))
      IN  IF eq # 0
          THEN SetParameters(
                 circuit_set_parameter(M, ctx, NameOf(param, eq), value),
                 Append(lg, "circuit_set_parameter"), i + 1)
          ELSE SetParameters(M, lg, i + 1)

\* process_audio: print the circuit info if available, set the parameters.
Setup ==
    /\ pc = "setup"
    /\ LET lg == IF Resolved("circuit_get_info")
                 THEN Append(log, "circuit_get_info") ELSE log
           r  == IF config.num_params > 0 /\ Resolved("circuit_set_parameter")
                 THEN SetParameters(Mem, lg, 1)
                 ELSE [M |-> Mem, log |-> lg]
       IN  SetMem(r.M) /\ log' = r.log
    /\ pc' = "alloc"
    /\ UNCHANGED <<ctx, fault, histVars, cmd, config, syms, exports,
                   hostLocals, exit_status, failures>>

\* process_audio: allocate the two buffers.  malloc of a negative size
\* (a huge size_t) fails; malloc(0) may return either.
AllocBuffers(okIn, okOut) ==
    /\ pc = "alloc"
    /\ buffer_samples < 0 => ~okIn /\ ~okOut
    /\ input_buffer' = [ptr |-> IF okIn THEN "input_buffer" ELSE NULL,
                        data |-> <<>>]
    /\ output_buffer' = [ptr |-> IF okOut THEN "output_buffer" ELSE NULL,
                         data |-> <<>>]
    /\ IF okIn /\ okOut
       THEN pc' = "read" /\ UNCHANGED failures
       ELSE pc' = "cleanup" /\ failures' = failures \cup {"alloc"}
    /\ total_frames' = 0
    /\ buffer_count' = 0
    /\ UNCHANGED <<libVars, histVars, cmd, config, syms, exports, infile,
                   outfile, sfinfo_in, frames_read, remaining, written,
                   result, exit_status, log>>

\* while ((frames_read = sf_read_float(...)) > 0): a failed read returns 0,
\* as the end of the stream does.
ReadBuffer(error) ==
    /\ pc = "read"
    /\ LET want == Min(buffer_samples, remaining * sfinfo_in.channels)
       IN  IF error
           THEN /\ remaining > 0
                /\ frames_read' = 0
                /\ failures' = failures \cup {"read"}
                /\ pc' = "finish"
                /\ UNCHANGED <<input_buffer, remaining>>
           ELSE IF want <= 0
           THEN /\ frames_read' = 0
                /\ pc' = "finish"
                /\ UNCHANGED <<input_buffer, remaining, failures>>
           ELSE /\ \E data \in StreamBuffers(want \div sfinfo_in.channels,
                                             sfinfo_in.channels) :
                      input_buffer' = [input_buffer EXCEPT !.data = data]
                /\ frames_read' = want
                /\ remaining' = remaining - want \div sfinfo_in.channels
                /\ pc' = "process"
                /\ UNCHANGED failures
    /\ UNCHANGED <<libVars, histVars, cmd, config, syms, exports, infile,
                   outfile, sfinfo_in, output_buffer, total_frames,
                   buffer_count, written, result, exit_status, log>>

\* The loop body: circuit_process, then sf_write_float, whose result is not
\* looked at.
ProcessBuffer(wrote) ==
    /\ pc = "process"
    /\ log' = Append(log, "circuit_process")
    /\ IF ~Resolved("circuit_process")
       THEN Kill /\ UNCHANGED <<context, state, parameters, heap, frees,
                                output_buffer, written, failures,
                                total_frames, buffer_count>>
       ELSE LET frames_to_process ==
                    TruncDiv(frames_read, sfinfo_in.channels)
                r == circuit_process(Mem, ctx, input_buffer.data,
                                     frames_to_process, sfinfo_in.channels)
            IN  /\ SetMem(r.M)
                /\ output_buffer' = [output_buffer EXCEPT !.data = r.output]
                /\ written' = IF wrote THEN written + frames_read ELSE written
                /\ failures' = IF wrote THEN failures
                               ELSE failures \cup {"write"}
                /\ total_frames' = total_frames + frames_read
                /\ buffer_count' = buffer_count + 1
                /\ pc' = "read"
                /\ UNCHANGED fault
    /\ UNCHANGED <<ctx, histVars, cmd, config, syms, exports, infile, outfile,
                   sfinfo_in, input_buffer, frames_read, remaining, result,
                   exit_status>>

\* After the loop: the statistics are printed and result = 0.
Finish ==
    /\ pc = "finish"
    /\ result' = 0
    /\ pc' = "cleanup"
    /\ UNCHANGED <<libVars, histVars, cmd, config, syms, exports, infile,
                   outfile, sfinfo_in, input_buffer, output_buffer,
                   frames_read, total_frames, buffer_count, remaining,
                   written, exit_status, log, failures>>

\* cleanup: the label every path of process_audio ends at.
Cleanup ==
    /\ pc = "cleanup"
    /\ IF ctx # NULL
       THEN /\ log' = Append(log, "circuit_cleanup")
            /\ IF ~Resolved("circuit_cleanup")
               THEN Kill /\ UNCHANGED <<context, state, parameters, heap, frees>>
               ELSE /\ SetMem(circuit_cleanup(Mem, ctx))
                    /\ pc' = "return"
                    /\ UNCHANGED fault
       ELSE /\ pc' = "return"
            /\ UNCHANGED <<context, state, parameters, heap, frees, fault, log>>
    /\ infile' = IF infile # NULL THEN "closed" ELSE infile
    /\ outfile' = IF outfile # NULL THEN "closed" ELSE outfile
    /\ input_buffer' = [input_buffer EXCEPT !.ptr = NULL]
    /\ output_buffer' = [output_buffer EXCEPT !.ptr = NULL]
    /\ UNCHANGED <<ctx, histVars, cmd, config, syms, exports, sfinfo_in,
                   frames_read, total_frames, buffer_count, remaining,
                   written, result, exit_status, failures>>

\* main: free the configuration and return result.
MainReturn(survives) ==
    /\ pc = "return"
    /\ LET wild == \E f \in Files : config[f] = "junk"
       IN  /\ survives \/ wild
           /\ IF survives
              THEN /\ pc' = "exited"
                   /\ exit_status' = ExitCode(result)
                   /\ UNCHANGED fault
              ELSE Kill /\ UNCHANGED exit_status
    /\ UNCHANGED <<ctx, context, state, parameters, heap, frees, histVars,
                   cmd, config, syms, exports, hostLocals, log, failures>>

HostNext ==
    \/ MainParseArgs
    \/ \E survives \in BOOLEAN : MainPrintConfiguration(survives)
    \/ MainLoadCircuit
    \/ OpenInput
    \/ \E ok, survives \in BOOLEAN : OpenOutput(ok, survives)
    \/ \E a, b, c \in BOOLEAN : InitCircuit(a, b, c)
    \/ Setup
    \/ \E okIn, okOut \in BOOLEAN : AllocBuffers(okIn, okOut)
    \/ \E error \in BOOLEAN : ReadBuffer(error)
    \/ \E wrote \in BOOLEAN : ProcessBuffer(wrote)
    \/ Finish
    \/ Cleanup
    \/ \E survives \in BOOLEAN : MainReturn(survives)

HostSpec == Init /\ [][HostNext]_vars

(***************************************************************************)
(* Properties.                                                             *)
(***************************************************************************)
Live == ctx # NULL /\ heap["ctx"] = "live"

IsFinite(x) == ~IsNaN(x)

\* C1 (state continuity): the circuit_process calls made one after another
\* on an instance, with the parameters and the channel count unchanged,
\* wrote what a single call on the concatenation of their inputs writes when
\* it starts from the last_output the first of them started from, and left
\* the same last_output.
StateContinuity ==
    (Live /\ hist.sizes # <<>>) =>
       LET once == circuit_process(
                      [Mem EXCEPT !.state.last_output = hist.base], ctx,
                      hist.input, Len(hist.input) \div hist.num_channels,
                      hist.num_channels)
       IN  /\ once.output = hist.output
           /\ once.M.state.last_output = state.last_output

\* Two chunks of at least one frame each went through an oversampling
\* instance and moved its filter memory.
StateContinuityWitness ==
    /\ Live
    /\ Len(hist.sizes) = 2
    /\ hist.sizes[1] >= 1
    /\ hist.sizes[2] >= 1
    /\ context.oversample >= 2
    /\ IsFinite(state.last_output)
    /\ state.last_output # hist.base

\* C2 (clamping): after circuit_set_parameter on Gain, Distortion or Volume
\* with a value below 0.0, circuit_get_parameter returns exactly 0.0, with a
\* value above 1.0 exactly 1.0; and every stored parameter lies in
\* [0.0, 1.0].
Clamping ==
    /\ (Live /\ last.op = "set_parameter" /\ last.name \in KnownNames) =>
          /\ FLt(last.value, Lit(0, 1)) =>
                circuit_get_parameter(Mem, ctx, last.name) = Lit(0, 1)
          /\ FGt(last.value, Lit(1, 1)) =>
                circuit_get_parameter(Mem, ctx, last.name) = Lit(1, 1)
    /\ Live => \A i \in 1..num_params :
                  /\ IsFinite(parameters[i])
                  /\ Lit(0, 1) <= parameters[i]
                  /\ parameters[i] <= Lit(1, 1)

\* C3 (unknown-name safety): circuit_set_parameter with a name other than
\* Gain, Distortion and Volume leaves the three parameters as they were;
\* circuit_get_parameter with such a name returns 0.0 and changes nothing;
\* neither faults.
UnknownNameSafety ==
    (last.op \in {"set_parameter", "get_parameter"}
        /\ last.name \notin KnownNames) =>
       /\ parameters = last.params
       /\ state.last_output = last.pre
       /\ ~fault
       /\ last.op = "get_parameter" => ret = Lit(0, 1)

\* An unknown name was passed on a live instance some of whose parameters
\* had been set before.
UnknownNameWitness ==
    /\ Live
    /\ last.op \in {"set_parameter", "get_parameter"}
    /\ last.name \notin KnownNames
    /\ calls >= 1
    /\ parameters # <<Lit(5, 10), Lit(5, 10), Lit(7, 10)>>

\* C4 (atomic create): whichever of its allocations fail, circuit_init does
\* not fault, and it returns either an instance with the context, the
\* internal state and the parameter array allocated and the defaults stored,
\* or NULL with no block left allocated.
CreateAtomic ==
    last.op = "init" =>
       /\ ~fault
       /\ ctx # NULL =>
             /\ \A b \in Blocks : heap[b] = "live"
             /\ context.internal_state # NULL
             /\ context.parameters # NULL
             /\ parameters = <<Lit(5, 10), Lit(5, 10), Lit(7, 10)>>
       /\ ctx = NULL => \A b \in Blocks : heap[b] # "live"

\* C5 (oversample >= 1): every instance circuit_init returned to the host,
\* and so every instance the host passes to circuit_process, has
\* oversample >= 1 and sample_rate > 0, whatever the command line.
OversampleAtLeastOne ==
    Live => context.oversample >= 1 /\ context.sample_rate > 0

Count(seq, x) == Cardinality({k \in DOMAIN seq : seq[k] = x})

IOFailures == {"open_in", "open_out", "read", "write"}

\* C6 (mandatory capabilities): the host calls no entry point it did not
\* resolve, and none at all unless circuit_init, circuit_process and
\* circuit_cleanup were all resolved: a module lacking one makes main exit
\* non-zero with nothing called.  With the mandatory three present and
\* nothing failing in the environment, the run is made whichever optional
\* entry points are absent: circuit_init first, one circuit_process per
\* buffer read, circuit_cleanup last, the stream read to its end.
MandatoryCapabilityCheck ==
    /\ \A k \in DOMAIN log : log[k] \in syms
    /\ log # <<>> => Mandatory \subseteq syms
    /\ (exports # {} /\ ~(Mandatory \subseteq exports)) =>
          pc = "exited" /\ exit_status # 0 /\ log = <<>>
    /\ (pc = "exited" /\ Mandatory \subseteq exports /\ failures = {}) =>
          /\ Len(log) >= 2
          /\ log[1] = "circuit_init"
          /\ log[Len(log)] = "circuit_cleanup"
          /\ Count(log, "circuit_process") = buffer_count
          /\ config.buffer_size > 0 => remaining = 0

\* A run that processed a buffer and ended with status 0 on a module that
\* exports the mandatory entry points only, with -p given.
MandatoryCapabilityWitness ==
    /\ pc = "exited"
    /\ exit_status = 0
    /\ exports = Mandatory
    /\ cmd.params # <<>>
    /\ Count(log, "circuit_process") >= 1
    /\ log[Len(log)] = "circuit_cleanup"

\* C7 (stream I/O failure is fatal): once opening, reading or writing a
\* stream has failed, process_audio processes no further buffer and returns
\* a non-zero result.
StreamFailureFatal ==
    /\ pc = "process" => failures \cap IOFailures = {}
    /\ (pc \in {"return", "exited"} /\ failures \cap IOFailures # {}) =>
          result # 0

\* C8 (create/cleanup pairing): the host calls circuit_cleanup at most once
\* and calls nothing after it; when process_audio has returned,
\* circuit_cleanup was called once if circuit_init returned an instance and
\* not at all otherwise; no block is freed twice, and circuit_cleanup frees
\* the internal state, the parameter array and the context once each.
CleanupPairing ==
    LET n == Count(log, "circuit_cleanup")
    IN  /\ n <= 1
        /\ \A k \in DOMAIN log : log[k] = "circuit_cleanup" => k = Len(log)
        /\ pc \in {"return", "exited"} => n = (IF ctx # NULL THEN 1 ELSE 0)
        /\ n = 1 => ctx # NULL
        /\ \A b \in Blocks : frees[b] <= 1
        /\ n = 1 => \A b \in Blocks : frees[b] = 1 /\ heap[b] = "freed"
        /\ (n = 0 /\ ctx # NULL /\ ~fault) =>
              \A b \in Blocks : frees[b] = 0 /\ heap[b] = "live"

\* process_audio returned through the buffer-allocation failure, after
\* circuit_init gave an instance and parameters were set on it.
CleanupPairingWitness ==
    /\ pc = "exited"
    /\ "alloc" \in failures
    /\ Count(log, "circuit_set_parameter") >= 1
    /\ Count(log, "circuit_cleanup") = 1
    /\ \A b \in Blocks : frees[b] = 1

\* The run was made and nothing failed in it: every frame of the input
\* stream was read, processed and written.
FullyProcessed ==
    /\ Count(log, "circuit_init") = 1
    /\ failures = {}
    /\ remaining = 0
    /\ written = sfinfo_in.frames * sfinfo_in.channels

\* C9 (exit status): the host exits with status 0 exactly when the whole
\* input stream was processed; a missing -i, -c or -o, a failed load of the
\* circuit, a failed open of a stream and a failed circuit_init each end in
\* a non-zero status.  (A request for help, -h, is answered with the usage
\* text and status 0; it is set aside here.)
ExitStatus ==
    (pc = "exited" /\ cmd.stop # "h") =>
       /\ exit_status = 0 <=> FullyProcessed
       /\ (~cmd.input \/ ~cmd.circuit \/ ~cmd.output) => exit_status # 0
       /\ failures \cap {"dlopen", "missing", "open_in", "open_out", "init"}
             # {} => exit_status # 0

\* C10 (channel replication): the frames circuit_process wrote have all
\* their channels equal, and the output and the last_output it left are
\* those of the same call on the input with every channel but the first
\* cleared.
ChannelReplication ==
    (Live /\ last.op = "process") =>
       LET nc   == last.num_channels
           n    == Len(last.input) \div nc
           mono == [k \in DOMAIN last.input |->
                      IF (k - 1) % nc = 0 THEN last.input[k] ELSE Lit(0, 1)]
           r    == circuit_process(
                      [Mem EXCEPT !.state.last_output = last.pre], ctx,
                      mono, n, nc)
       IN  /\ Len(last.output) = n * nc
           /\ \A i \in 0..(n - 1), ch \in 1..nc :
                 last.output[i * nc + ch] = last.output[i * nc + 1]
           /\ r.output = last.output
           /\ r.M.state.last_output = state.last_output

\* A stereo frame whose channels differ went through and gave a non-zero
\* output.
ChannelReplicationWitness ==
    /\ Live
    /\ last.op = "process"
    /\ last.num_channels = 2
    /\ Len(last.input) = 2
    /\ last.input[2] # last.input[1]
    /\ IsFinite(last.output[1])
    /\ last.output[1] # 0
    /\ last.output[2] = last.output[1]

RECURSIVE Halved(_, _)
\* x after k halvings.
Halved(x, k) == IF k <= 0 THEN x ELSE Halved(FMul(Lit(5, 10), x), k - 1)

\* C11 (zero-input decay): over consecutive circuit_process calls whose
\* input is all zero, every output sample is a number, each is no larger in
\* magnitude than the one before it and of the same sign, and last_output
\* is what it was before the first of the calls, halved once per inner
\* oversampling step.
ZeroInputDecay ==
    (Live /\ hist.sizes # <<>>
          /\ \A k \in DOMAIN hist.input : hist.input[k] = Lit(0, 1)) =>
       LET nc == hist.num_channels
           n  == Len(hist.input) \div nc
           out(i) == hist.output[(i - 1) * nc + 1]
       IN  /\ Len(hist.output) = n * nc
           /\ \A i \in 1..n : IsFinite(out(i))
           /\ \A i \in 2..n : /\ Abs(out(i)) <= Abs(out(i - 1))
                              /\ out(i) * out(i - 1) >= 0
           /\ IsFinite(state.last_output)
           /\ state.last_output = Halved(hist.base, n * context.oversample)
           /\ (last.op = "process" /\ last.output # <<>>) =>
                 LET m == Len(last.input) \div nc
                     first == last.output[1]
                     pre == Halved(last.pre, context.oversample)
                 IN  /\ state.last_output =
                           Halved(last.pre, m * context.oversample)
                     /\ first = FDiv(pre, IntToF(context.oversample))
                     /\ Abs(first) <= Abs(last.pre)
                     /\ first * last.pre >= 0

\* C12 (strictly positive threshold): in every circuit_process call made
\* after circuit_init and any circuit_set_parameter calls, the remapped
\* gain lies in [0.5, 10.0], the threshold handed to tube_saturate in
\* [0.1, 1.0], so above 0, and the output level in [0.0, 1.0].
RemapRanges ==
    (Live /\ last.op = "process") =>
       /\ IsFinite(state.gain)
       /\ Lit(5, 10) <= state.gain /\ state.gain <= Lit(10, 1)
       /\ IsFinite(state.threshold)
       /\ Lit(1, 10) <= state.threshold /\ state.threshold <= Lit(1, 1)
       /\ FGt(state.threshold, Lit(0, 1))
       /\ IsFinite(state.makeup_gain)
       /\ Lit(0, 1) <= state.makeup_gain /\ state.makeup_gain <= Lit(1, 1)

====
